---- MODULE Spec2Model ----
(***************************************************************************)
(* Library Processing Engine of kaero/streaming: the catalog (SQLite table *)
(* videos), the scanner, the filesystem watcher, the worker pool and the   *)
(* transcoder (job registry, encodes, master playlist).                    *)
(***************************************************************************)
EXTENDS Integers, Sequences, FiniteSets, TLC

\* ------------------------------------------------------------------ bounds

\* How many times ScanLibrary is run in one behaviour.
MaxScans == 2

\* The most fsnotify events waiting for the watch goroutine.
MaxEvents == 2

\* The age, in hours, from which on the model stops telling ages apart.
MaxAgeHours == 25

\* ------------------------------------------------------- the media tree

\* Files that may exist under the media directory.  RootA and SubA share a
\* base name; Notes is not a video.
RootA == "media/a.mp4"
SubA == "media/sub/a.mp4"
Notes == "media/notes.txt"

AllFiles == {RootA, SubA, Notes}

\* A directory directly in the media directory, named like a video file.
ClipDir == "media/clips.mp4"

\* info.IsDir()
IsDir(path) == path = ClipDir

\* filepath.Base
Base(path) ==
  CASE path = RootA -> "a.mp4"
    [] path = SubA -> "a.mp4"
    [] path = Notes -> "notes.txt"
    [] path = ClipDir -> "clips.mp4"

\* strings.TrimPrefix(r.URL.Path, "/video/") of the request whose videoPath,
\* filepath.Join(MediaDir, videoFile), is path.
VideoFile(path) ==
  CASE path = RootA -> "a.mp4"
    [] path = SubA -> "sub/a.mp4"
    [] path = Notes -> "notes.txt"

\* strings.ToLower(filepath.Ext(name))
Ext(name) ==
  CASE name = "a.mp4" -> ".mp4"
    [] name = "sub/a.mp4" -> ".mp4"
    [] name = "notes.txt" -> ".txt"
    [] name = "clips.mp4" -> ".mp4"

\* strings.TrimSuffix(name, filepath.Ext(name))
Stem(name) ==
  CASE name = "a.mp4" -> "a"
    [] name = "sub/a.mp4" -> "sub/a"
    [] name = "notes.txt" -> "notes"

\* info.Size() of each file.
FileSize(path) ==
  CASE path = RootA -> 104857600
    [] path = SubA -> 2048
    [] path = Notes -> 12
    [] path = ClipDir -> 4096

\* Whether the file lies directly in the media directory (the only directory
\* the fsnotify watcher is registered on).
InMediaDir(path) == path \in {RootA, Notes, ClipDir}

\* The order in which filepath.Walk visits the files (lexical, depth first).
WalkOrder == <<RootA, Notes, SubA>>

RECURSIVE SelectSeq2(_, _)
SelectSeq2(s, S) ==
  IF s = <<>> THEN <<>>
  ELSE IF Head(s) \in S THEN <<Head(s)>> \o SelectSeq2(Tail(s), S)
       ELSE SelectSeq2(Tail(s), S)

\* The files filepath.Walk visits, in order, for a tree holding fs.
Walk(fs) == SelectSeq2(WalkOrder, fs)

\* Every extension taken for a video format.
isVideoFileAny(ext) == TRUE

isVideoFile(ext) ==
  ext \in {".mp4", ".mkv", ".avi", ".mov", ".webm", ".flv", ".wmv"}

\* ------------------------------------------------------------ the catalog

StatusPending == "pending"
StatusProcessing == "processing"
StatusReady == "ready"
StatusError == "error"

\* Column error_message (TEXT, no default, no NOT NULL) holds SQL NULL or a
\* text; a text is the sequence of its message parts.
SqlNull == [valid |-> FALSE, str |-> <<>>]

SqlText(s) == [valid |-> TRUE, str |-> s]

\* An error value: nil is the empty sequence, otherwise the parts of Error().
Nil == <<>>

\* Table videos: videos[id] is the row with that AUTOINCREMENT id.
Row(filename, path, size, status, msg) ==
  [filename |-> filename, path |-> path, size |-> size, duration |-> 0,
   status |-> status, errorMessage |-> msg]

\* AddVideo without the UNIQUE constraint on path.
AddVideoNoUnique(cat, filename, path, size) ==
  [videos |-> Append(cat, Row(filename, path, size, StatusPending, SqlNull)),
   id |-> Len(cat) + 1, err |-> Nil]

\* INSERT INTO videos (filename, path, size, status): path is UNIQUE, so the
\* insert fails when a row with the path exists; error_message stays NULL.
AddVideo(cat, filename, path, size) ==
  IF \E i \in DOMAIN cat : cat[i].path = path
  THEN [videos |-> cat, id |-> 0,
        err |-> <<"failed to add video: ", "UNIQUE constraint failed: videos.path">>]
  ELSE [videos |-> Append(cat, Row(filename, path, size, StatusPending, SqlNull)),
        id |-> Len(cat) + 1, err |-> Nil]

\* VideoExists answering false for every path.
VideoExistsNever(cat, path) == FALSE

\* SELECT COUNT(*) FROM videos WHERE path = ?  ... count > 0
VideoExists(cat, path) ==
  Cardinality({i \in DOMAIN cat : cat[i].path = path}) > 0

\* The zero Video.
NoVideo ==
  [ID |-> 0, Filename |-> "", Path |-> "", Size |-> 0, Status |-> "",
   ErrorMessage |-> Nil]

\* rows.Scan / row.Scan of one row into a Video: error_message is scanned
\* into a Go string, which database/sql refuses for NULL.
ScanRow(cat, i) ==
  IF ~cat[i].errorMessage.valid
  THEN [err |-> <<"converting NULL to string is unsupported">>,
        video |-> NoVideo]
  ELSE [err |-> Nil,
        video |-> [ID |-> i, Filename |-> cat[i].filename, Path |-> cat[i].path,
                   Size |-> cat[i].size, Status |-> cat[i].status,
                   ErrorMessage |-> cat[i].errorMessage.str]]

\* GetVideoByPath: found is FALSE for sql.ErrNoRows (nil, nil).
GetVideoByPath(cat, path) ==
  LET ids == {i \in DOMAIN cat : cat[i].path = path} IN
  IF ids = {} THEN [err |-> Nil, found |-> FALSE, video |-> NoVideo]
  ELSE LET i == CHOOSE j \in ids : \A k \in ids : j <= k
           r == ScanRow(cat, i) IN
       IF r.err # Nil
       THEN [err |-> <<"failed to get video by path: ">> \o r.err,
             found |-> FALSE, video |-> NoVideo]
       ELSE [err |-> Nil, found |-> TRUE, video |-> r.video]

\* UPDATE videos SET status = ?, error_message = ? WHERE id = ?
UpdateVideoStatus(cat, id, status, msg) ==
  IF id \in DOMAIN cat
  THEN [cat EXCEPT ![id].status = status, ![id].errorMessage = SqlText(msg)]
  ELSE cat

SetVideoProcessing(cat, id) == UpdateVideoStatus(cat, id, StatusProcessing, <<>>)

\* The ready write leaving error_message as it is.
SetVideoReadyKeepsMessage(cat, id, duration) ==
  IF id \in DOMAIN cat
  THEN [cat EXCEPT ![id].status = StatusReady, ![id].duration = duration]
  ELSE cat

\* UPDATE videos SET status = ready, duration = ?, error_message = ''
SetVideoReady(cat, id, duration) ==
  IF id \in DOMAIN cat
  THEN [cat EXCEPT ![id].status = StatusReady, ![id].duration = duration,
                   ![id].errorMessage = SqlText(<<>>)]
  ELSE cat

SetVideoError(cat, id, msg) == UpdateVideoStatus(cat, id, StatusError, msg)

\* Position of a filename in ORDER BY filename.
NameRank(name) ==
  CASE name = "a.mp4" -> 1
    [] name = "notes.txt" -> 2

\* The ids of the rows with the given status, in ORDER BY filename order
\* (rows of equal filename in rowid order).
RECURSIVE OrderedIds(_, _)
OrderedIds(cat, ids) ==
  IF ids = {} THEN <<>>
  ELSE LET i == CHOOSE j \in ids : \A k \in ids :
                   \/ NameRank(cat[j].filename) < NameRank(cat[k].filename)
                   \/ /\ NameRank(cat[j].filename) = NameRank(cat[k].filename)
                      /\ j <= k
       IN <<i>> \o OrderedIds(cat, ids \ {i})

\* The rows.Next loop of ListVideosByStatus over the ids still to scan: the
\* first row that fails to scan ends the call with (nil, err).
RECURSIVE ScanRows(_, _, _)
ScanRows(cat, ids, acc) ==
  IF ids = <<>> THEN [err |-> Nil, videos |-> acc]
  ELSE LET r == ScanRow(cat, Head(ids)) IN
       IF r.err # Nil
       THEN [err |-> <<"failed to scan video row: ">> \o r.err, videos |-> <<>>]
       ELSE ScanRows(cat, Tail(ids), Append(acc, r.video))

\* ListVideos: every row, in ORDER BY filename order.
ListVideos(cat) == ScanRows(cat, OrderedIds(cat, DOMAIN cat), <<>>)

ListVideosByStatus(cat, status) ==
  ScanRows(cat, OrderedIds(cat, {i \in DOMAIN cat : cat[i].status = status}), <<>>)

\* GetPendingVideos listing the rows left in processing too.
GetPendingVideosUnfinished(cat) ==
  ScanRows(cat, OrderedIds(cat, {i \in DOMAIN cat :
                                  cat[i].status \in {StatusPending, StatusProcessing}}),
           <<>>)

\* GetPendingVideos: the rows with status pending.
GetPendingVideos(cat) == ListVideosByStatus(cat, StatusPending)

\* ------------------------------------------------------------------ state

VARIABLES
  files,       \* the files present under the media directory
  videos,      \* table videos, indexed by id
  added,       \* "Added new video to library" log lines: [id, path, size]
  scan,        \* the ScanLibrary caller: [pc, walk, idx, runs, err, ret, failed];
               \* runs counts the calls that returned, err is the last
               \* AddVideo error logged, ret what the last call returned and
               \* failed the path whose walk error ended it
  events,      \* fsnotify events not yet received by the watch goroutine
  watch,       \* the watch goroutine: [pc, name, size, err]
  threads,     \* config.Library.ProcessingThreads
  pass,        \* the ProcessPendingVideos callers: [pc, pendingVideos, jobs, ret]
  wk,          \* the workers of each pass: [pc, video, err, g]
  activeJobs,  \* the transcoder's registry of active job keys
  cacheDirs,   \* the directories under the cache directory
  cacheFiles,  \* the files under the cache directory: [dir, name, content]
  cacheRoot,   \* the entries directly in the cache directory:
               \* name -> [isDir, hours], hours since the last modification
  reaper,      \* the CleanupCache goroutine: [pc, dirs, idx, stat]
  http,        \* the last request served: [path, err, found, video, code]
  refreshCh,   \* the number of signals held by the handler's refresh channel
  mgr,         \* the library Manager: [isWatching, stopChan, watcher]
  grown,       \* the files written to since they were made
  lib          \* the librarian process: [main, periodic, old, panicked, cfg],
               \* the positions of runLibrarian and of the periodic-scan
               \* goroutine, a watch goroutine of an earlier StartWatching
               \* that has not returned yet, whether a panic ended the
               \* process, and the configuration

discoveryVars == <<files, videos, added, scan, events, watch, mgr, grown, lib>>

\* What no step of a pool pass changes.
discoveryProcs == <<files, added, scan, events, watch, mgr, grown, lib>>

poolVars == <<threads, pass, wk, activeJobs, cacheDirs, cacheFiles, cacheRoot, reaper>>

serverVars == <<http, refreshCh>>

vars == <<files, videos, added, scan, events, watch,
          threads, pass, wk, activeJobs, cacheDirs, cacheFiles, cacheRoot,
          reaper, http, refreshCh, mgr, grown, lib>>

\* A catalog left by earlier runs: one row per path of ps, in walk order, each
\* pending with a non-NULL (empty) error_message.  The file of a row may have
\* disappeared since.
RECURSIVE CatalogOf(_)
CatalogOf(ps) ==
  IF ps = <<>> THEN <<>>
  ELSE <<Row(Base(Head(ps)), Head(ps), FileSize(Head(ps)), StatusPending, SqlText(<<>>))>>
       \o CatalogOf(Tail(ps))

VideoFiles == {f \in AllFiles : isVideoFile(Ext(Base(f)))}

\* info.Size() of a file now: a file written to since it was made has grown.
StatSize(path) == IF path \in grown THEN 2 * FileSize(path) ELSE FileSize(path)

\* No watch goroutine.
NoLoop == [pc |-> "none", name |-> "", size |-> 0, err |-> Nil]

InitDiscovery ==
  /\ files \in SUBSET AllFiles
  /\ \E known \in SUBSET VideoFiles : videos = CatalogOf(Walk(known))
  /\ added = {}
  /\ scan = [pc |-> "idle", walk |-> <<>>, idx |-> 0, runs |-> 0, err |-> Nil,
             ret |-> "none", failed |-> ""]
  /\ events = <<>>
  /\ watch = [pc |-> "select", name |-> "", size |-> 0, err |-> Nil]
  /\ mgr = [isWatching |-> TRUE, stopChan |-> "open", watcher |-> "open"]
  /\ grown = {}
  /\ lib = [main |-> "wait", periodic |-> "none", old |-> NoLoop,
            panicked |-> FALSE,
            cfg |-> [ScanOnStart |-> FALSE, WatchForChanges |-> TRUE,
                     PeriodicScan |-> FALSE]]

\* ---------------------------------------------------------- environment

\* A file appears under the media directory; fsnotify, until it is closed,
\* reports a Create event for a file directly in the watched directory.
CreateFile(f) ==
  /\ f \notin files
  /\ Len(events) < MaxEvents
  /\ files' = files \cup {f}
  /\ events' = IF InMediaDir(f) /\ mgr.watcher = "open"
               THEN Append(events, [name |-> f, op |-> "CREATE"])
               ELSE events
  /\ UNCHANGED <<grown, videos, added, scan, watch, poolVars, serverVars, mgr, lib>>

\* A file is written to and grows; fsnotify, until it is closed, reports a
\* Write event for a file directly in the watched directory.
ModifyFile(f) ==
  /\ f \in files
  /\ ~IsDir(f)
  /\ Len(events) < MaxEvents
  /\ grown' = grown \cup {f}
  /\ events' = IF InMediaDir(f) /\ mgr.watcher = "open"
               THEN Append(events, [name |-> f, op |-> "WRITE"])
               ELSE events
  /\ UNCHANGED <<files, videos, added, scan, watch, poolVars, serverVars, mgr, lib>>

\* A file or directory is removed; fsnotify reports a Remove event for one
\* directly in the media directory.
RemoveFile(f) ==
  /\ f \in files
  /\ Len(events) < MaxEvents
  /\ files' = files \ {f}
  /\ grown' = grown \ {f}
  /\ events' = IF InMediaDir(f) /\ mgr.watcher = "open"
               THEN Append(events, [name |-> f, op |-> "REMOVE"])
               ELSE events
  /\ UNCHANGED <<videos, added, scan, watch, poolVars, serverVars, mgr, lib>>

\* The directory is made in the media directory; fsnotify reports a Create
\* event.
MakeDir ==
  /\ ClipDir \notin files
  /\ Len(events) < MaxEvents
  /\ files' = files \cup {ClipDir}
  /\ events' = IF mgr.watcher = "open"
               THEN Append(events, [name |-> ClipDir, op |-> "CREATE"])
               ELSE events
  /\ UNCHANGED <<grown, videos, added, scan, watch, poolVars, serverVars, mgr, lib>>

\* What happens to the media tree.
Changes ==
  \/ \E f \in AllFiles : CreateFile(f)
  \/ \E f \in AllFiles : ModifyFile(f)
  \/ \E f \in AllFiles \cup {ClipDir} : RemoveFile(f)
  \/ MakeDir

\* ---------------------------------------------------------------- scanner

\* The media directory itself, as filepath.Walk reports it.
MediaDir == "media"

\* ScanLibrary is called: filepath.Walk starts over the media directory, or
\* cannot read the directory, and the walk function returns that error.
ScanStart ==
  /\ scan.pc = "idle"
  /\ scan.runs < MaxScans
  /\ \E rootErr \in BOOLEAN :
       IF rootErr
       THEN scan' = [scan EXCEPT !.runs = @ + 1, !.err = Nil, !.ret = "err",
                                 !.failed = MediaDir]
       ELSE scan' = [scan EXCEPT !.pc = "visit", !.walk = Walk(files), !.idx = 1,
                                 !.err = Nil, !.failed = ""]
  /\ UNCHANGED <<files, grown, videos, added, events, watch, poolVars, serverVars, mgr, lib>>

\* The walk function writing the size it finds to a row the catalog holds
\* already.
ScanVisitResize ==
  /\ scan.pc = "visit"
  /\ scan.idx <= Len(scan.walk)
  /\ LET path == scan.walk[scan.idx] IN
     \E walkErr \in BOOLEAN :
       IF walkErr
       THEN /\ scan' = [scan EXCEPT !.pc = "idle", !.walk = <<>>, !.idx = 0,
                                    !.runs = @ + 1, !.ret = "err", !.failed = path]
            /\ videos' = videos
       ELSE IF isVideoFile(Ext(Base(path))) /\ ~VideoExists(videos, path)
       THEN scan' = [scan EXCEPT !.pc = "insert"] /\ videos' = videos
       ELSE /\ scan' = [scan EXCEPT !.idx = @ + 1]
            /\ videos' = [i \in DOMAIN videos |->
                            IF videos[i].path = path
                            THEN [videos[i] EXCEPT !.size = StatSize(path)]
                            ELSE videos[i]]
  /\ UNCHANGED <<files, grown, added, events, watch, poolVars, serverVars, mgr, lib>>

\* The walk function on the next file up to the exists check: a file that is
\* no video, or is in the catalog already, is passed over.  When
\* filepath.Walk hands the function an error for the file, the function
\* returns it, which ends the walk: ScanLibrary returns the error.
ScanVisit ==
  /\ scan.pc = "visit"
  /\ scan.idx <= Len(scan.walk)
  /\ LET path == scan.walk[scan.idx] IN
     \E walkErr \in BOOLEAN :
       IF walkErr
       THEN scan' = [scan EXCEPT !.pc = "idle", !.walk = <<>>, !.idx = 0,
                                 !.runs = @ + 1, !.ret = "err", !.failed = path]
       ELSE IF isVideoFile(Ext(Base(path))) /\ ~VideoExists(videos, path)
       THEN scan' = [scan EXCEPT !.pc = "insert"]
       ELSE scan' = [scan EXCEPT !.idx = @ + 1]
  /\ UNCHANGED <<files, grown, videos, added, events, watch, poolVars, serverVars, mgr, lib>>

\* The walk function's AddVideo call: an error is logged and the walk goes on.
ScanInsert ==
  /\ scan.pc = "insert"
  /\ LET path == scan.walk[scan.idx]
         r == AddVideo(videos, Base(path), path, StatSize(path)) IN
     /\ videos' = r.videos
     /\ added' = IF r.err = Nil
                 THEN added \cup {[id |-> r.id, path |-> path, size |-> StatSize(path)]}
                 ELSE added
     /\ scan' = [scan EXCEPT !.pc = "visit", !.idx = @ + 1, !.err = r.err]
  /\ UNCHANGED <<files, grown, events, watch, poolVars, serverVars, mgr, lib>>

\* A return of ScanLibrary that first deletes the entries whose file is gone.
ScanReturnPrune ==
  /\ scan.pc = "visit"
  /\ scan.idx > Len(scan.walk)
  /\ scan' = [scan EXCEPT !.pc = "idle", !.walk = <<>>, !.idx = 0, !.runs = @ + 1,
                          !.ret = "nil"]
  /\ videos' = SelectSeq(videos, LAMBDA row : row.path \in files)
  /\ UNCHANGED <<files, grown, added, events, watch, poolVars, serverVars, mgr, lib>>

\* filepath.Walk has visited every file: ScanLibrary returns nil.
ScanReturn ==
  /\ scan.pc = "visit"
  /\ scan.idx > Len(scan.walk)
  /\ scan' = [scan EXCEPT !.pc = "idle", !.walk = <<>>, !.idx = 0, !.runs = @ + 1,
                          !.ret = "nil"]
  /\ UNCHANGED <<files, grown, videos, added, events, watch, poolVars, serverVars, mgr, lib>>

\* ---------------------------------------------------------------- watcher

\* The watch goroutine receives an event from watcher.Events and handles it
\* up to the exists check: an event that is neither Create nor Write, a
\* name without a video extension, a failing os.Stat (the path is gone), a
\* directory and a path the catalog holds are passed over.
WatchEvent ==
  /\ watch.pc = "select"
  /\ events # <<>>
  /\ LET event == Head(events) IN
     IF /\ event.op \in {"CREATE", "WRITE"}
        /\ isVideoFile(Ext(Base(event.name)))
        /\ event.name \in files
        /\ ~IsDir(event.name)
        /\ ~VideoExists(videos, event.name)
     THEN watch' = [watch EXCEPT !.pc = "insert", !.name = event.name,
                                 !.size = StatSize(event.name)]
     ELSE watch' = watch
  /\ events' = Tail(events)
  /\ UNCHANGED <<files, grown, videos, added, scan, poolVars, serverVars, mgr, lib>>

\* The watch goroutine's AddVideo call: an error is logged and the loop goes on.
WatchInsert ==
  /\ watch.pc = "insert"
  /\ LET r == AddVideo(videos, Base(watch.name), watch.name, watch.size) IN
     /\ videos' = r.videos
     /\ added' = IF r.err = Nil
                 THEN added \cup {[id |-> r.id, path |-> watch.name, size |-> watch.size]}
                 ELSE added
     /\ watch' = [pc |-> "select", name |-> "", size |-> 0, err |-> r.err]
  /\ UNCHANGED <<files, grown, events, scan, poolVars, serverVars, mgr, lib>>

\* A call of StopWatching whose caller goes on as l: nothing when isWatching
\* is false; else close(m.stopChan), which panics on a channel closed
\* before, and isWatching cleared.
StopCall(l) ==
  /\ ~lib.panicked
  /\ IF ~mgr.isWatching
     THEN mgr' = mgr /\ lib' = l
     ELSE IF mgr.stopChan = "closed"
          THEN lib' = [lib EXCEPT !.panicked = TRUE] /\ mgr' = mgr
          ELSE /\ mgr' = [mgr EXCEPT !.isWatching = FALSE, !.stopChan = "closed"]
               /\ lib' = l
  /\ UNCHANGED <<files, grown, videos, added, scan, events, watch, poolVars, serverVars>>

\* StopWatching clearing isWatching without a signal to the goroutine.
StopWatchingNoSignal ==
  /\ mgr.isWatching
  /\ mgr' = [mgr EXCEPT !.isWatching = FALSE]
  /\ UNCHANGED <<files, grown, videos, added, scan, events, watch, poolVars, serverVars, lib>>

\* StopWatching, its caller left as it is.
StopWatching == StopCall(lib)

\* Close: StopWatching and nothing else.
Close == StopCall([lib EXCEPT !.main = "closed"])

\* The watch goroutine's select takes the stopChan case: it closes the
\* fsnotify watcher and returns.
WatchStop ==
  /\ watch.pc = "select"
  /\ mgr.stopChan = "closed"
  /\ watch' = [watch EXCEPT !.pc = "returned"]
  /\ mgr' = [mgr EXCEPT !.watcher = "closed"]
  /\ UNCHANGED <<files, grown, videos, added, scan, events, poolVars, serverVars, lib>>

\* A call of StartWatching whose caller goes on as l: nothing while
\* isWatching is true or when fsnotify.NewWatcher fails; else the new watcher
\* is stored and isWatching set, and unless watcher.Add fails the watch
\* goroutine is started on the new watcher's channels.  A goroutine of an
\* earlier call that has not returned goes on next to it.
StartCall(l) ==
  /\ ~lib.panicked
  /\ \E newErr \in BOOLEAN, addErr \in BOOLEAN :
       IF mgr.isWatching \/ newErr
       THEN lib' = l /\ UNCHANGED <<mgr, watch, events>>
       ELSE IF addErr
            THEN /\ mgr' = [mgr EXCEPT !.isWatching = TRUE, !.watcher = "unwatched"]
                 /\ lib' = l
                 /\ UNCHANGED <<watch, events>>
            ELSE /\ mgr' = [mgr EXCEPT !.isWatching = TRUE, !.watcher = "open"]
                 /\ watch' = [NoLoop EXCEPT !.pc = "select"]
                 /\ events' = <<>>
                 /\ lib' = IF watch.pc \in {"select", "insert"}
                           THEN [l EXCEPT !.old = watch]
                           ELSE l
  /\ UNCHANGED <<files, grown, videos, added, scan, poolVars, serverVars>>

\* StartWatching, its caller left as it is.
StartWatching == StartCall(lib)

\* The AddVideo call of a watch goroutine started by an earlier
\* StartWatching.
OldWatchInsert ==
  /\ lib.old.pc = "insert"
  /\ LET r == AddVideo(videos, Base(lib.old.name), lib.old.name, lib.old.size) IN
     /\ videos' = r.videos
     /\ added' = IF r.err = Nil
                 THEN added \cup {[id |-> r.id, path |-> lib.old.name,
                                   size |-> lib.old.size]}
                 ELSE added
     /\ lib' = [lib EXCEPT !.old = [NoLoop EXCEPT !.pc = "select", !.err = r.err]]
  /\ UNCHANGED <<files, grown, events, watch, scan, poolVars, serverVars, mgr>>

\* The select of a watch goroutine started by an earlier StartWatching takes
\* the stopChan case: it closes its own fsnotify watcher and returns.
OldWatchStop ==
  /\ lib.old.pc = "select"
  /\ mgr.stopChan = "closed"
  /\ lib' = [lib EXCEPT !.old = NoLoop]
  /\ UNCHANGED <<files, grown, videos, added, scan, events, watch, poolVars, serverVars, mgr>>

\* The watch goroutine and the calls that stop it.
Watcher ==
  \/ WatchEvent
  \/ WatchInsert
  \/ StopWatching
  \/ WatchStop

\* One call of ScanLibrary, step by step.
Scanner ==
  \/ ScanStart
  \/ ScanVisit
  \/ ScanInsert
  \/ ScanReturn

Discovery ==
  \/ \E f \in AllFiles : CreateFile(f)
  \/ Scanner
  \/ WatchEvent
  \/ WatchInsert


\* ------------------------------------------------------------- transcoder

\* The quality variants PrepareVideo defines.
Qualities == <<[width |-> "1280", height |-> "720", bitrate |-> "2500k"]>>

QIdx == DOMAIN Qualities

\* strconv.Atoi, with its error dropped (0 for a text that is no number).
Atoi(s) ==
  CASE s = "1280" -> 1280
    [] s = "720" -> 720
    [] s = "2500" -> 2500
    [] OTHER -> 0

\* strings.TrimSuffix(bitrate, "k")
TrimSuffixK(s) ==
  CASE s = "2500k" -> "2500"
    [] OTHER -> s

\* The VideoJob PrepareVideo builds for one quality of a video.
VideoJob(videoPath, q) ==
  [SourceFile |-> videoPath,
   OutputDir |-> Stem(Base(videoPath)),
   OutputName |-> <<Base(videoPath), "_", q.height, ".m3u8">>,
   Width |-> Atoi(q.width), Height |-> Atoi(q.height), Bitrate |-> q.bitrate]

\* fmt.Sprintf("%s_%d_%d_%s", SourceFile, Width, Height, Bitrate)
JobKey(job) == <<job.SourceFile, job.Width, job.Height, job.Bitrate>>

IsJobActive(jobs, jobKey) == jobKey \in jobs

SetJobActive(jobs, jobKey, active) ==
  IF active THEN jobs \cup {jobKey} ELSE jobs \ {jobKey}

\* How an ffmpeg subprocess may end: exit status and combined output.
FfmpegOutcomes ==
  {[code |-> 0, output |-> <<>>], [code |-> 1, output |-> <<"codec not found">>]}

\* fmt.Errorf("transcoding failed: %v", err) for the *exec.ExitError.
TranscodeError(outcome) == <<"transcoding failed: ", "exit status 1">>

MkdirError == <<"mkdir: permission denied">>

WriteError == <<"open: permission denied">>

\* The text GenerateHLSMasterPlaylist builds, as its lines.
RECURSIVE VariantLines(_, _)
VariantLines(videoFile, qualities) ==
  IF qualities = <<>> THEN <<>>
  ELSE LET quality == Head(qualities)
           bandwidthBps == Atoi(TrimSuffixK(quality.bitrate)) * 1000 IN
       << [tag |-> "#EXT-X-STREAM-INF", bandwidth |-> bandwidthBps,
           resolution |-> <<quality.width, "x", quality.height>>,
           name |-> <<quality.height, "p">>,
           uri |-> <<>>],
          [tag |-> "", bandwidth |-> 0, resolution |-> <<>>, name |-> <<>>,
           uri |-> <<videoFile, "_", quality.height, ".m3u8">>] >>
       \o VariantLines(videoFile, Tail(qualities))

MasterPlaylist(videoFile, qualities) ==
  << [tag |-> "#EXTM3U", bandwidth |-> 0, resolution |-> <<>>, name |-> <<>>,
      uri |-> <<>>],
     [tag |-> "#EXT-X-VERSION:3", bandwidth |-> 0, resolution |-> <<>>,
      name |-> <<>>, uri |-> <<>>] >>
  \o VariantLines(videoFile, qualities)

\* filepath.Base(videoFile) + ".m3u8"
MasterName(videoFile) == <<videoFile, ".m3u8">>

\* os.WriteFile: the file of that name in that directory now holds content.
WriteFile(fs, dir, name, content) ==
  {f \in fs : ~(f.dir = dir /\ f.name = name)}
  \cup {[dir |-> dir, name |-> name, content |-> content]}

\* -------------------------------------------------------- cache directory

\* A directory left in the cache directory by an earlier run, and a file
\* that is not a directory.
OldDir == "old"

StrayFile == "thumbs.db"

\* The names an entry of the cache directory may have, in the order of
\* file names, with what kind of entry each is.
CacheOrder ==
  << [name |-> "a", isDir |-> TRUE], [name |-> OldDir, isDir |-> TRUE],
     [name |-> StrayFile, isDir |-> FALSE] >>

CacheNames == {CacheOrder[i].name : i \in DOMAIN CacheOrder}

EmptyDir == [n \in {} |-> [isDir |-> TRUE, hours |-> 0]]

\* os.MkdirAll of the directory of that name in the cache directory.
MkdirAll(root, name) ==
  [n \in DOMAIN root \cup {name} |->
     IF n \in DOMAIN root THEN root[n] ELSE [isDir |-> TRUE, hours |-> 0]]

\* A file created in the directory of that name: the directory's
\* modification time is now.
Touch(root, name) ==
  [n \in DOMAIN root |-> IF n = name THEN [root[n] EXCEPT !.hours = 0] ELSE root[n]]

\* os.ReadDir(cfg.Media.CacheDir): the entries sorted by file name.
ReadDir(root) == SelectSeq(CacheOrder, LAMBDA e : e.name \in DOMAIN root)

\* 24*time.Hour
RetentionHours == 24

\* time.Since(info.ModTime()) > 24*time.Hour, at the cut of the mutant.
ExpiredAtThreshold(hours) == hours >= RetentionHours

\* time.Since(info.ModTime()) > 24*time.Hour
Expired(hours) == hours > RetentionHours

\* os.RemoveAll(dirPath)
RemoveAll(root, name) == [n \in DOMAIN root \ {name} |-> root[n]]

ReadDirError == <<"open: permission denied">>

StatError == <<"stat: no such file or directory">>

\* ------------------------------------------------------------ worker pool

Passes == {"pass1", "pass2"}

\* The most workers one pass may start.
MaxWorkers == 2

Workers == 1..MaxWorkers

\* ProcessingThreads values the configuration may hold.
ThreadChoices == 0..MaxWorkers

\* numWorkers taken from the configuration as it is.
NumWorkersNoClamp(n) == n

\* numWorkers of ProcessPendingVideos.
NumWorkers(n) == IF n <= 0 THEN 1 ELSE n

\* A variant goroutine of PrepareVideo: code is the ffmpeg exit status, -1
\* while none has been observed.
IdleEncode == [pc |-> "none", err |-> Nil, code |-> -1, output |-> <<>>]

IdleWorker(pc) ==
  [pc |-> pc, video |-> NoVideo, err |-> Nil, g |-> [q \in QIdx |-> IdleEncode]]

InitPool ==
  /\ threads \in ThreadChoices
  /\ pass = [p \in Passes |->
               [pc |-> "idle", pendingVideos |-> <<>>, jobs |-> <<>>, ret |-> "none"]]
  /\ wk = [pw \in Passes \X Workers |-> IdleWorker("off")]
  /\ activeJobs = {}

\* The cache directory as EnsureDirectories makes it, and CleanupCache
\* waiting for its ticker.
IdleReaper == [pc |-> "tick", dirs |-> <<>>, idx |-> 0, err |-> Nil, log |-> {}]

InitCache ==
  /\ cacheDirs = {}
  /\ cacheFiles = {}
  /\ cacheRoot = EmptyDir
  /\ reaper = IdleReaper

\* A cache directory holding entries of earlier runs, each last modified
\* around the retention threshold.
InitOldCache ==
  /\ \E names \in SUBSET CacheNames :
       \E age \in [names -> (RetentionHours - 1)..MaxAgeHours] :
         cacheRoot = [n \in names |->
                        [isDir |-> \E i \in DOMAIN CacheOrder :
                                     CacheOrder[i].name = n /\ CacheOrder[i].isDir,
                         hours |-> age[n]]]
  /\ cacheDirs = {n \in DOMAIN cacheRoot : cacheRoot[n].isDir}
  /\ cacheFiles = {}
  /\ reaper = IdleReaper

\* ProcessPendingVideos starting one worker for each listed video.
PassStartPerVideo(p) ==
  /\ pass[p].pc = "idle"
  /\ LET r == GetPendingVideos(videos) IN
     IF r.err # Nil
     THEN /\ pass' = [pass EXCEPT ![p].ret = "err"]
          /\ wk' = wk
     ELSE IF Len(r.videos) = 0
     THEN /\ pass' = [pass EXCEPT ![p].ret = "nil"]
          /\ wk' = wk
     ELSE /\ pass' = [pass EXCEPT ![p] = [pc |-> "wait", pendingVideos |-> r.videos,
                                         jobs |-> r.videos, ret |-> "none"]]
          /\ wk' = [pw \in Passes \X Workers |->
                     IF pw[1] = p /\ pw[2] <= Len(r.videos)
                     THEN IdleWorker("range") ELSE wk[pw]]
  /\ UNCHANGED <<videos, threads, activeJobs, cacheDirs, cacheFiles, discoveryProcs, serverVars, cacheRoot, reaper>>

\* ProcessPendingVideos up to wg.Wait: the list query, the early returns, the
\* workers started, every listed video sent to the jobs channel (its capacity
\* is the number of videos) and the channel closed.
PassStart(p) ==
  /\ pass[p].pc = "idle"
  /\ LET r == GetPendingVideos(videos) IN
     IF r.err # Nil
     THEN /\ pass' = [pass EXCEPT ![p].ret = "err"]
          /\ wk' = wk
     ELSE IF Len(r.videos) = 0
     THEN /\ pass' = [pass EXCEPT ![p].ret = "nil"]
          /\ wk' = wk
     ELSE /\ pass' = [pass EXCEPT ![p] = [pc |-> "wait", pendingVideos |-> r.videos,
                                         jobs |-> r.videos, ret |-> "none"]]
          /\ wk' = [pw \in Passes \X Workers |->
                     IF pw[1] = p /\ pw[2] <= NumWorkers(threads)
                     THEN IdleWorker("range") ELSE wk[pw]]
  /\ UNCHANGED <<videos, threads, activeJobs, cacheDirs, cacheFiles, discoveryProcs, serverVars, cacheRoot, reaper>>

\* A worker's range over the jobs channel yields the next video.
WorkerTake(p, w) ==
  /\ wk[<<p, w>>].pc = "range"
  /\ pass[p].jobs # <<>>
  /\ wk' = [wk EXCEPT ![<<p, w>>].video = Head(pass[p].jobs),
                      ![<<p, w>>].pc = "setProcessing"]
  /\ pass' = [pass EXCEPT ![p].jobs = Tail(@)]
  /\ UNCHANGED <<videos, threads, activeJobs, cacheDirs, cacheFiles, discoveryProcs, serverVars, cacheRoot, reaper>>

\* wg.Wait over a jobs channel left open: the workers stay in their range
\* loops, and the call returns only when none is left.
PassReturnUnclosed(p) ==
  /\ pass[p].pc = "wait"
  /\ \A w \in Workers : wk[<<p, w>>].pc = "off"
  /\ pass' = [pass EXCEPT ![p] = [pc |-> "idle", pendingVideos |-> <<>>,
                                  jobs |-> <<>>, ret |-> "nil"]]
  /\ wk' = [pw \in Passes \X Workers |-> IF pw[1] = p THEN IdleWorker("off") ELSE wk[pw]]
  /\ UNCHANGED <<videos, threads, activeJobs, cacheDirs, cacheFiles, discoveryProcs, serverVars, cacheRoot, reaper>>

\* The jobs channel is closed, so a worker's range loop ends once the
\* channel is drained and the worker is between videos; when every worker
\* that was started has ended, wg.Wait returns and ProcessPendingVideos
\* returns nil.
PassReturn(p) ==
  /\ pass[p].pc = "wait"
  /\ \A w \in Workers : wk[<<p, w>>].pc \in {"range", "off"}
  /\ (\E w \in Workers : wk[<<p, w>>].pc = "range") => pass[p].jobs = <<>>
  /\ pass' = [pass EXCEPT ![p] = [pc |-> "idle", pendingVideos |-> <<>>,
                                  jobs |-> <<>>, ret |-> "nil"]]
  /\ wk' = [pw \in Passes \X Workers |-> IF pw[1] = p THEN IdleWorker("off") ELSE wk[pw]]
  /\ UNCHANGED <<videos, threads, activeJobs, cacheDirs, cacheFiles, discoveryProcs, serverVars, cacheRoot, reaper>>

\* processVideo going on to PrepareVideo whether or not the processing write
\* was persisted.
WorkerSetProcessingUnchecked(p, w) ==
  /\ wk[<<p, w>>].pc = "setProcessing"
  /\ \E ok \in BOOLEAN :
       videos' = IF ok THEN SetVideoProcessing(videos, wk[<<p, w>>].video.ID)
                 ELSE videos
  /\ wk' = [wk EXCEPT ![<<p, w>>].pc = "prepare"]
  /\ UNCHANGED <<threads, pass, activeJobs, cacheDirs, cacheFiles, discoveryProcs, serverVars, cacheRoot, reaper>>

\* processVideo: the status write to processing; when the write fails the
\* error is logged and processVideo returns.
WorkerSetProcessing(p, w) ==
  /\ wk[<<p, w>>].pc = "setProcessing"
  /\ \E ok \in BOOLEAN :
       IF ok
       THEN /\ videos' = SetVideoProcessing(videos, wk[<<p, w>>].video.ID)
            /\ wk' = [wk EXCEPT ![<<p, w>>].pc = "prepare"]
       ELSE /\ videos' = videos
            /\ wk' = [wk EXCEPT ![<<p, w>>] = IdleWorker("range")]
  /\ UNCHANGED <<threads, pass, activeJobs, cacheDirs, cacheFiles, discoveryProcs, serverVars, cacheRoot, reaper>>

\* PrepareVideo up to wg.Wait: the output directory is made (or MkdirAll
\* fails and PrepareVideo returns the error) and one goroutine per quality
\* is started.
WorkerPrepare(p, w) ==
  /\ wk[<<p, w>>].pc = "prepare"
  /\ \E ok \in BOOLEAN :
       IF ok
       THEN /\ cacheDirs' = cacheDirs \cup {Stem(Base(wk[<<p, w>>].video.Path))}
            /\ cacheRoot' = MkdirAll(cacheRoot, Stem(Base(wk[<<p, w>>].video.Path)))
            /\ wk' = [wk EXCEPT ![<<p, w>>].pc = "wgWait",
                                ![<<p, w>>].g = [q \in QIdx |-> [IdleEncode EXCEPT !.pc = "check"]]]
       ELSE /\ cacheDirs' = cacheDirs
            /\ cacheRoot' = cacheRoot
            /\ wk' = [wk EXCEPT ![<<p, w>>].pc = "setError", ![<<p, w>>].err = MkdirError]
  /\ UNCHANGED <<videos, threads, pass, activeJobs, cacheFiles, discoveryProcs, serverVars, reaper>>

\* TranscodeToHLS: the IsJobActive check; an active key ends the call
\* with nil.
EncodeCheck(p, w, q) ==
  /\ wk[<<p, w>>].g[q].pc = "check"
  /\ LET job == VideoJob(wk[<<p, w>>].video.Path, Qualities[q]) IN
     IF IsJobActive(activeJobs, JobKey(job))
     THEN wk' = [wk EXCEPT ![<<p, w>>].g[q].pc = "done"]
     ELSE wk' = [wk EXCEPT ![<<p, w>>].g[q].pc = "mark"]
  /\ UNCHANGED <<videos, threads, pass, activeJobs, cacheDirs, cacheFiles, discoveryProcs, serverVars, cacheRoot, reaper>>

\* TranscodeToHLS returning the MkdirAll error with the job key left active.
EncodeStartLeak(p, w, q) ==
  /\ wk[<<p, w>>].g[q].pc = "mark"
  /\ LET job == VideoJob(wk[<<p, w>>].video.Path, Qualities[q]) IN
     \E ok \in BOOLEAN :
       IF ok
       THEN /\ activeJobs' = SetJobActive(activeJobs, JobKey(job), TRUE)
            /\ cacheDirs' = cacheDirs \cup {job.OutputDir}
            /\ cacheRoot' = MkdirAll(cacheRoot, job.OutputDir)
            /\ wk' = [wk EXCEPT ![<<p, w>>].g[q].pc = "run"]
       ELSE /\ activeJobs' = SetJobActive(activeJobs, JobKey(job), TRUE)
            /\ cacheDirs' = cacheDirs
            /\ cacheRoot' = cacheRoot
            /\ wk' = [wk EXCEPT ![<<p, w>>].g[q].pc = "done",
                                ![<<p, w>>].g[q].err = MkdirError]
  /\ UNCHANGED <<videos, threads, pass, cacheFiles, discoveryProcs, serverVars, reaper>>

\* TranscodeToHLS: SetJobActive(jobKey, true), the output directory, and the
\* ffmpeg subprocess started; when MkdirAll fails the call returns its error
\* and the deferred SetJobActive(jobKey, false) runs.
EncodeStart(p, w, q) ==
  /\ wk[<<p, w>>].g[q].pc = "mark"
  /\ LET job == VideoJob(wk[<<p, w>>].video.Path, Qualities[q]) IN
     \E ok \in BOOLEAN :
       IF ok
       THEN /\ activeJobs' = SetJobActive(activeJobs, JobKey(job), TRUE)
            /\ cacheDirs' = cacheDirs \cup {job.OutputDir}
            /\ cacheRoot' = MkdirAll(cacheRoot, job.OutputDir)
            /\ wk' = [wk EXCEPT ![<<p, w>>].g[q].pc = "run"]
       ELSE /\ activeJobs' = SetJobActive(SetJobActive(activeJobs, JobKey(job), TRUE),
                                          JobKey(job), FALSE)
            /\ cacheDirs' = cacheDirs
            /\ cacheRoot' = cacheRoot
            /\ wk' = [wk EXCEPT ![<<p, w>>].g[q].pc = "done",
                                ![<<p, w>>].g[q].err = MkdirError]
  /\ UNCHANGED <<videos, threads, pass, cacheFiles, discoveryProcs, serverVars, reaper>>

\* The ffmpeg subprocess ends: on exit status 0 its playlist is in the output
\* directory, which must still be there; otherwise TranscodeToHLS logs the
\* output and returns an error.  The deferred SetJobActive(jobKey, false)
\* runs either way.
EncodeExit(p, w, q) ==
  /\ wk[<<p, w>>].g[q].pc = "run"
  /\ LET job == VideoJob(wk[<<p, w>>].video.Path, Qualities[q]) IN
     \E outcome \in FfmpegOutcomes :
       /\ outcome.code = 0 => job.OutputDir \in cacheDirs
       /\ activeJobs' = SetJobActive(activeJobs, JobKey(job), FALSE)
       /\ cacheFiles' = IF outcome.code = 0
                        THEN WriteFile(cacheFiles, job.OutputDir, job.OutputName, <<>>)
                        ELSE cacheFiles
       /\ cacheRoot' = IF outcome.code = 0 THEN Touch(cacheRoot, job.OutputDir)
                       ELSE cacheRoot
       /\ wk' = [wk EXCEPT ![<<p, w>>].g[q] =
                   [pc |-> "done",
                    err |-> IF outcome.code = 0 THEN Nil ELSE TranscodeError(outcome),
                    code |-> outcome.code, output |-> outcome.output]]
  /\ UNCHANGED <<videos, threads, pass, cacheDirs, discoveryProcs, serverVars, reaper>>

\* PrepareVideo after wg.Wait: the goroutines' errors were only logged;
\* GenerateHLSMasterPlaylist writes the master playlist for all qualities
\* (or WriteFile fails, as it does without the output directory, and
\* PrepareVideo returns the error).
WorkerGenerate(p, w) ==
  /\ wk[<<p, w>>].pc = "wgWait"
  /\ \A q \in QIdx : wk[<<p, w>>].g[q].pc = "done"
  /\ LET videoFileName == Base(wk[<<p, w>>].video.Path)
         outputDir == Stem(videoFileName) IN
     \E ok \in BOOLEAN :
       /\ ok => outputDir \in cacheDirs
       /\ IF ok
          THEN /\ cacheFiles' = WriteFile(cacheFiles, outputDir, MasterName(videoFileName),
                                          MasterPlaylist(videoFileName, Qualities))
               /\ cacheRoot' =
                    IF \E f \in cacheFiles :
                         f.dir = outputDir /\ f.name = MasterName(videoFileName)
                    THEN cacheRoot
                    ELSE Touch(cacheRoot, outputDir)
               /\ wk' = [wk EXCEPT ![<<p, w>>].pc = "setReady"]
          ELSE /\ cacheFiles' = cacheFiles
               /\ cacheRoot' = cacheRoot
               /\ wk' = [wk EXCEPT ![<<p, w>>].pc = "setError", ![<<p, w>>].err = WriteError]
  /\ UNCHANGED <<videos, threads, pass, activeJobs, cacheDirs, discoveryProcs, serverVars, reaper>>

\* processVideo ending its worker when PrepareVideo returned an error.
WorkerSetErrorAborts(p, w) ==
  /\ wk[<<p, w>>].pc = "setError"
  /\ \E ok \in BOOLEAN :
       videos' = IF ok
                 THEN SetVideoError(videos, wk[<<p, w>>].video.ID, wk[<<p, w>>].err)
                 ELSE videos
  /\ wk' = [wk EXCEPT ![<<p, w>>] = IdleWorker("off")]
  /\ UNCHANGED <<threads, pass, activeJobs, cacheDirs, cacheFiles, discoveryProcs, serverVars, cacheRoot, reaper>>

\* processVideo: PrepareVideo returned an error, stored by SetVideoError,
\* whose own error is dropped.
WorkerSetError(p, w) ==
  /\ wk[<<p, w>>].pc = "setError"
  /\ \E ok \in BOOLEAN :
       videos' = IF ok
                 THEN SetVideoError(videos, wk[<<p, w>>].video.ID, wk[<<p, w>>].err)
                 ELSE videos
  /\ wk' = [wk EXCEPT ![<<p, w>>] = IdleWorker("range")]
  /\ UNCHANGED <<threads, pass, activeJobs, cacheDirs, cacheFiles, discoveryProcs, serverVars, cacheRoot, reaper>>

\* processVideo: PrepareVideo returned a master path, the status write to
\* ready; when the write fails the error is logged.
WorkerSetReady(p, w) ==
  /\ wk[<<p, w>>].pc = "setReady"
  /\ \E ok \in BOOLEAN :
       videos' = IF ok
                 THEN SetVideoReady(videos, wk[<<p, w>>].video.ID, 0)
                 ELSE videos
  /\ wk' = [wk EXCEPT ![<<p, w>>] = IdleWorker("range")]
  /\ UNCHANGED <<threads, pass, activeJobs, cacheDirs, cacheFiles, discoveryProcs, serverVars, cacheRoot, reaper>>

\* The steps of one ProcessPendingVideos call after its start.
PassSteps(p) ==
  \/ PassReturn(p)
  \/ \E w \in Workers : WorkerTake(p, w)
  \/ \E w \in Workers : WorkerSetProcessing(p, w)
  \/ \E w \in Workers : WorkerPrepare(p, w)
  \/ \E w \in Workers, q \in QIdx : EncodeCheck(p, w, q)
  \/ \E w \in Workers, q \in QIdx : EncodeStart(p, w, q)
  \/ \E w \in Workers, q \in QIdx : EncodeExit(p, w, q)
  \/ \E w \in Workers : WorkerGenerate(p, w)
  \/ \E w \in Workers : WorkerSetError(p, w)
  \/ \E w \in Workers : WorkerSetReady(p, w)

Pool ==
  \/ \E p \in Passes : PassStart(p)
  \/ \E p \in Passes : PassSteps(p)

\* ---------------------------------------------------------- cache reaper

\* CleanupCache, the ticker fires: os.ReadDir lists the cache directory, or
\* fails, which is logged, and the loop waits for the next tick.
ReaperTick ==
  /\ reaper.pc = "tick"
  /\ \E ok \in BOOLEAN :
       IF ok
       THEN reaper' = [reaper EXCEPT !.pc = IF ReadDir(cacheRoot) = <<>> THEN "tick" ELSE "range",
                                     !.dirs = ReadDir(cacheRoot),
                                     !.idx = IF ReadDir(cacheRoot) = <<>> THEN 0 ELSE 1,
                                     !.err = Nil]
       ELSE reaper' = [reaper EXCEPT !.err = ReadDirError]
  /\ UNCHANGED <<discoveryVars, threads, pass, wk, activeJobs, cacheDirs, cacheFiles,
                 cacheRoot, serverVars>>

\* CleanupCache, one entry of the listing: an entry that is not a directory
\* or whose os.Stat fails is passed over; a directory last modified more
\* than 24 hours ago is logged and removed with all it holds.
ReaperVisit ==
  /\ reaper.pc = "range"
  /\ LET dir == reaper.dirs[reaper.idx]
         last == reaper.idx = Len(reaper.dirs)
         next == [reaper EXCEPT !.pc = IF last THEN "tick" ELSE "range",
                                !.dirs = IF last THEN <<>> ELSE reaper.dirs,
                                !.idx = IF last THEN 0 ELSE reaper.idx + 1] IN
     IF ~dir.isDir
     THEN /\ reaper' = next
          /\ UNCHANGED <<cacheRoot, cacheDirs, cacheFiles>>
     ELSE \E ok \in BOOLEAN :
            /\ ok => dir.name \in DOMAIN cacheRoot
            /\ IF ~ok
               THEN /\ reaper' = [next EXCEPT !.err = StatError]
                    /\ UNCHANGED <<cacheRoot, cacheDirs, cacheFiles>>
               ELSE IF Expired(cacheRoot[dir.name].hours)
                    THEN /\ reaper' = [next EXCEPT !.log = reaper.log \cup {dir.name}]
                         /\ cacheRoot' = RemoveAll(cacheRoot, dir.name)
                         /\ cacheDirs' = cacheDirs \ {dir.name}
                         /\ cacheFiles' = {f \in cacheFiles : f.dir # dir.name}
                    ELSE /\ reaper' = next
                         /\ UNCHANGED <<cacheRoot, cacheDirs, cacheFiles>>
  /\ UNCHANGED <<discoveryVars, threads, pass, wk, activeJobs, serverVars>>

Reaper == ReaperTick \/ ReaperVisit

\* An hour goes by: every entry of the cache directory was last modified
\* an hour longer ago.
HourPasses ==
  /\ \E n \in DOMAIN cacheRoot : cacheRoot[n].hours < MaxAgeHours
  /\ cacheRoot' = [n \in DOMAIN cacheRoot |->
                     [cacheRoot[n] EXCEPT !.hours = IF @ < MaxAgeHours THEN @ + 1 ELSE @]]
  /\ UNCHANGED <<discoveryVars, threads, pass, wk, activeJobs, cacheDirs, cacheFiles,
                 reaper, serverVars>>

\* ----------------------------------------------------------------- server

InitServer ==
  /\ http = [route |-> "", path |-> "", err |-> Nil, found |-> FALSE,
             video |-> NoVideo, code |-> 0, views |-> <<>>]
  /\ refreshCh = 0

\* VideoHandler redirecting to the master playlist whenever it is on disk.
VideoResponseNoGate(r, videoPath, fs, cache) ==
  IF r.err # Nil THEN 500
  ELSE IF ~r.found THEN (IF videoPath \notin fs THEN 404 ELSE 412)
  ELSE IF \E f \in cache :
            /\ f.dir = Stem(VideoFile(videoPath))
            /\ f.name = <<VideoFile(videoPath), ".m3u8">>
       THEN 302
       ELSE 404

\* The status code VideoHandler answers with once the catalog lookup gave r.
VideoResponse(r, videoPath, fs, cache) ==
  IF r.err # Nil THEN 500
  ELSE IF ~r.found THEN (IF videoPath \notin fs THEN 404 ELSE 412)
  ELSE IF r.video.Status \in {StatusPending, StatusProcessing} THEN 202
  ELSE IF r.video.Status = StatusError THEN 500
  ELSE IF r.video.Status # StatusReady THEN 500
  ELSE IF \E f \in cache :
            /\ f.dir = Stem(VideoFile(videoPath))
            /\ f.name = <<VideoFile(videoPath), ".m3u8">>
       THEN 302
       ELSE 404

\* VideoHandler serves GET /video/<videoFile>.
VideoHandler(videoPath) ==
  /\ LET r == GetVideoByPath(videos, videoPath) IN
     http' = [route |-> "video", path |-> videoPath, err |-> r.err,
              found |-> r.found, video |-> r.video,
              code |-> VideoResponse(r, videoPath, files, cacheFiles),
              views |-> <<>>]
  /\ UNCHANGED <<discoveryVars, poolVars, refreshCh>>

\* The status code PlayerHandler answers with once the catalog lookup gave
\* r: 200 is the player page.
PlayerResponse(r) ==
  IF r.err # Nil THEN 500
  ELSE IF ~r.found THEN 404
  ELSE IF r.video.Status # StatusReady THEN 412
  ELSE 200

\* PlayerHandler serves GET /player/<videoFile>.
PlayerHandler(videoPath) ==
  /\ LET r == GetVideoByPath(videos, videoPath) IN
     http' = [route |-> "player", path |-> videoPath, err |-> r.err,
              found |-> r.found, video |-> r.video, code |-> PlayerResponse(r),
              views |-> <<>>]
  /\ UNCHANGED <<discoveryVars, poolVars, refreshCh>>

\* The VideoView of a catalog row.
VideoView(dbVideo) ==
  [Name |-> dbVideo.Filename,
   SizeMB |-> dbVideo.Size \div (1024 * 1024),
   Status |-> dbVideo.Status,
   CanPlay |-> dbVideo.Status = StatusReady,
   ErrorMsg |-> IF dbVideo.Status = StatusError THEN dbVideo.ErrorMessage ELSE <<>>]

\* The files os.ReadDir(MediaDir) lists that are not directories, by name.
MediaDirOrder == <<RootA, Notes>>

\* The VideoViews of the video files in the media directory that no view
\* so far is named after.
Unprocessed(views, fs) ==
  LET new == SelectSeq(MediaDirOrder,
                       LAMBDA f : /\ f \in fs
                                  /\ Ext(Base(f)) \in {".mp4", ".mkv", ".avi", ".mov", ".webm"}
                                  /\ \A k \in DOMAIN views : views[k].Name # Base(f))
  IN [k \in DOMAIN new |->
        [Name |-> Base(new[k]),
         SizeMB |-> StatSize(new[k]) \div (1024 * 1024),
         Status |-> "unprocessed",
         CanPlay |-> FALSE,
         ErrorMsg |-> <<"Video has not been processed yet">>]]

\* make(chan struct{}, 1)
RefreshCap == 1

\* A send on the refresh channel that would block when the channel is full.
SendOrQueue(ch) == [ch |-> ch + 1, sent |-> TRUE]

\* select { case refreshCh <- struct{}{}: default: }
SendOrDrop(ch) ==
  IF ch < RefreshCap THEN [ch |-> ch + 1, sent |-> TRUE]
  ELSE [ch |-> ch, sent |-> FALSE]

\* ListVideosHandler.  GET /?scan=true: the refresh signal is sent or
\* dropped and the request is redirected to the list page.  GET /: the list
\* page with a view of every catalog row, then of every video file in the
\* media directory not listed so far (none when os.ReadDir fails); an error
\* of ListVideos is answered with 500.
ListVideosHandler(scanQuery) ==
  IF scanQuery
  THEN /\ refreshCh' = SendOrDrop(refreshCh).ch
       /\ http' = [route |-> "list", path |-> "/?scan=true", err |-> Nil,
                   found |-> FALSE, video |-> NoVideo, code |-> 303, views |-> <<>>]
       /\ UNCHANGED <<discoveryVars, poolVars>>
  ELSE /\ LET r == ListVideos(videos)
              dbViews == [k \in DOMAIN r.videos |-> VideoView(r.videos[k])] IN
          \E ok \in BOOLEAN :
            http' = [route |-> "list", path |-> "/", err |-> r.err,
                     found |-> FALSE, video |-> NoVideo,
                     code |-> IF r.err # Nil THEN 500 ELSE 200,
                     views |-> IF r.err # Nil THEN <<>>
                               ELSE IF ok THEN dbViews \o Unprocessed(dbViews, files)
                               ELSE dbViews]
       /\ UNCHANGED <<discoveryVars, poolVars, refreshCh>>

\* Requests for /video/<videoFile>.
VideoRequests == \E videoPath \in AllFiles : VideoHandler(videoPath)

Server ==
  \/ VideoRequests
  \/ \E videoPath \in AllFiles : PlayerHandler(videoPath)
  \/ ListVideosHandler(FALSE)

\* The server's goroutine ranging over the refresh channel takes a signal
\* and logs it.
RefreshLoop ==
  /\ refreshCh > 0
  /\ refreshCh' = refreshCh - 1
  /\ UNCHANGED <<discoveryVars, poolVars, http>>

Refresh == ListVideosHandler(TRUE) \/ RefreshLoop

\* ------------------------------------------------------------ the librarian

\* runLibrarian with scan_on_start: ScanLibrary, then ProcessPendingVideos
\* once it has returned.
Startup ==
  \/ scan.runs = 0 /\ Scanner
  \/ /\ scan.runs = 1
     /\ pass["pass1"].ret = "none"
     /\ PassStart("pass1")
  \/ PassSteps("pass1")

\* What the steps of runLibrarian and of the periodic-scan goroutine that
\* only move on leave as it is.
libFrame == <<files, grown, videos, added, events, watch, mgr, threads, wk,
              activeJobs, cacheDirs, cacheFiles, cacheRoot, reaper, serverVars>>

\* runLibrarian reads cfg.Library.ScanOnStart.
LibBegin ==
  /\ lib.main = "start"
  /\ lib' = [lib EXCEPT !.main = IF lib.cfg.ScanOnStart THEN "scan" ELSE "watch"]
  /\ UNCHANGED <<libFrame, scan, pass>>

\* ScanLibrary has returned to runLibrarian, which logs an error and goes
\* on to ProcessPendingVideos.
LibScanned ==
  /\ lib.main = "scan"
  /\ scan.pc = "idle"
  /\ scan.ret # "none"
  /\ scan' = [scan EXCEPT !.ret = "none"]
  /\ lib' = [lib EXCEPT !.main = "pass"]
  /\ UNCHANGED <<libFrame, pass>>

\* runLibrarian going on while its ProcessPendingVideos call still runs.
LibPassedEarly ==
  /\ lib.main = "pass"
  /\ pass["pass1"].pc = "wait" \/ pass["pass1"].ret # "none"
  /\ pass' = [pass EXCEPT !["pass1"].ret = "none"]
  /\ lib' = [lib EXCEPT !.main = "watch"]
  /\ UNCHANGED <<libFrame, scan>>

\* ProcessPendingVideos has returned to runLibrarian, which logs an error
\* and goes on.
LibPassed ==
  /\ lib.main = "pass"
  /\ pass["pass1"].pc = "idle"
  /\ pass["pass1"].ret # "none"
  /\ pass' = [pass EXCEPT !["pass1"].ret = "none"]
  /\ lib' = [lib EXCEPT !.main = "watch"]
  /\ UNCHANGED <<libFrame, scan>>

\* runLibrarian calls StartWatching when watch_for_changes is set; its error
\* is logged.
LibWatch ==
  /\ lib.main = "watch"
  /\ IF lib.cfg.WatchForChanges
     THEN StartCall([lib EXCEPT !.main = "periodic"])
     ELSE /\ lib' = [lib EXCEPT !.main = "periodic"]
          /\ UNCHANGED <<libFrame, scan, pass>>

\* runLibrarian calls StartPeriodicScan when the interval is positive: the
\* goroutine is started with its ticker; then runLibrarian waits for a
\* signal.
LibPeriodic ==
  /\ lib.main = "periodic"
  /\ lib' = [lib EXCEPT !.main = "wait",
                        !.periodic = IF lib.cfg.PeriodicScan THEN "select" ELSE "none"]
  /\ UNCHANGED <<libFrame, scan, pass>>

\* The signal arrives: runLibrarian returns, its deferred calls are due.
LibStop ==
  /\ lib.main = "wait"
  /\ lib' = [lib EXCEPT !.main = "closing"]
  /\ UNCHANGED <<libFrame, scan, pass>>

\* The deferred lm.Close().
LibClose == lib.main = "closing" /\ Close

\* The periodic-scan goroutine's select takes the ticker case.
PeriodicTick ==
  /\ lib.periodic = "select"
  /\ scan.runs < MaxScans
  /\ lib' = [lib EXCEPT !.periodic = "scan"]
  /\ UNCHANGED <<libFrame, scan, pass>>

\* ScanLibrary has returned to the periodic-scan goroutine, which logs an
\* error and goes on to ProcessPendingVideos.
PeriodicScanned ==
  /\ lib.periodic = "scan"
  /\ scan.pc = "idle"
  /\ scan.ret # "none"
  /\ scan' = [scan EXCEPT !.ret = "none"]
  /\ lib' = [lib EXCEPT !.periodic = "pass"]
  /\ UNCHANGED <<libFrame, pass>>

\* ProcessPendingVideos has returned to the periodic-scan goroutine, which
\* logs an error and selects again.
PeriodicPassed ==
  /\ lib.periodic = "pass"
  /\ pass["pass2"].pc = "idle"
  /\ pass["pass2"].ret # "none"
  /\ pass' = [pass EXCEPT !["pass2"].ret = "none"]
  /\ lib' = [lib EXCEPT !.periodic = "select"]
  /\ UNCHANGED <<libFrame, scan>>

\* The periodic-scan goroutine's select takes the stopChan case.
PeriodicStop ==
  /\ lib.periodic = "select"
  /\ mgr.stopChan = "closed"
  /\ lib' = [lib EXCEPT !.periodic = "returned"]
  /\ UNCHANGED <<libFrame, scan, pass>>

\* The ScanLibrary and ProcessPendingVideos calls of runLibrarian and of the
\* periodic-scan goroutine.
LibCalls ==
  \/ /\ lib.main = "scan" \/ lib.periodic = "scan"
     /\ scan.ret = "none"
     /\ ScanStart
  \/ ScanVisit
  \/ ScanInsert
  \/ ScanReturn
  \/ /\ lib.main = "pass"
     /\ pass["pass1"].ret = "none"
     /\ PassStart("pass1")
  \/ PassSteps("pass1")
  \/ /\ lib.periodic = "pass"
     /\ pass["pass2"].ret = "none"
     /\ PassStart("pass2")
  \/ PassSteps("pass2")

\* The periodic-scan goroutine.
Periodic == PeriodicTick \/ PeriodicScanned \/ PeriodicPassed \/ PeriodicStop

\* The librarian process: runLibrarian, the goroutines it starts and the
\* calls they make.  The watch goroutine's events are left to Watcher.
Librarian ==
  \/ LibBegin
  \/ LibScanned
  \/ LibPassed
  \/ LibWatch
  \/ LibPeriodic
  \/ LibStop
  \/ LibClose
  \/ Periodic
  \/ LibCalls
  \/ WatchStop

\* ---------------------------------------------------------- specifications

Init == InitDiscovery /\ InitPool /\ InitCache /\ InitServer

\* The server process next to an empty media directory and catalog, its
\* cache directory holding entries of earlier runs.
InitReaper ==
  /\ InitDiscovery
  /\ files = {}
  /\ videos = <<>>
  /\ InitPool
  /\ threads = 1
  /\ InitOldCache
  /\ InitServer

Next ==
  \/ Discovery \/ Changes \/ Watcher \/ Pool \/ Server \/ Refresh \/ Reaper
  \/ HourPasses \/ StartWatching \/ OldWatchInsert \/ OldWatchStop \/ Librarian

\* A configuration with ProcessingThreads at most 1.
InitOneWorker == Init /\ threads <= 1

\* The engine: scans, watcher events and pool passes in any interleaving.
Spec == Init /\ [][Next]_vars

\* The worker pool and the transcoder over a catalog and a tree that stay as
\* they are: ProcessPendingVideos called by two callers that may overlap,
\* each with one worker.
SpecPool == InitOneWorker /\ [][Pool]_vars

\* One caller of ProcessPendingVideos, with every number of workers.
SpecOnePass == Init /\ [][PassStart("pass1") \/ PassSteps("pass1")]_vars

\* The scanner and the watcher over a growing tree.
SpecDiscovery == Init /\ [][Discovery]_vars

\* ScanLibrary run again and again over a tree that stays as it is.
SpecScan == Init /\ [][Scanner]_vars

\* The watch goroutine over a growing tree until it is stopped.  A goroutine
\* that can run does run, and a select with a ready case takes one.
SpecWatch ==
  /\ Init
  /\ [][(\E f \in AllFiles : CreateFile(f)) \/ Watcher]_vars
  /\ WF_vars(WatchInsert)
  /\ WF_vars(WatchStop)

\* The watch goroutine over a tree whose files are made, written to and
\* removed.
SpecWatchEvents == InitOneWorker /\ [][Changes \/ WatchEvent \/ WatchInsert]_vars

\* The server answering requests over a catalog that stays as it is.
SpecServer == Init /\ [][Server \/ Refresh]_vars

\* ScanLibrary calls next to one caller of ProcessPendingVideos with one
\* worker.
SpecScanPool ==
  InitOneWorker /\ [][Scanner \/ PassStart("pass1") \/ PassSteps("pass1")]_vars

\* The stop signal given while a ProcessPendingVideos call is waiting for its
\* workers.
StopMidDrain == pass["pass1"].pc = "wait" /\ StopWatching

\* The server's refresh requests next to the librarian's start.  The refresh
\* consumer and the librarian's start are goroutines that run when they can;
\* nothing else is scheduled.
SpecRefresh ==
  /\ InitOneWorker
  /\ [][Refresh \/ Startup]_vars
  /\ WF_vars(RefreshLoop)
  /\ WF_vars(Startup)

\* One caller of ProcessPendingVideos with one worker, next to the calls
\* that stop the library manager.
\* The sweeps of CleanupCache while time goes by.
SpecReaper == InitReaper /\ [][Reaper \/ HourPasses]_vars

SpecStopPool ==
  InitOneWorker
    /\ [][StopMidDrain \/ WatchStop \/ PassStart("pass1") \/ PassSteps("pass1")]_vars

\* The librarian's start next to the server answering requests.
SpecStartup == Init /\ [][Startup \/ VideoRequests]_vars

\* One configured worker, and a media tree that holds the text file.
InitSingleWorker == Init /\ threads = 1 /\ Notes \in files

\* The server's handlers next to the librarian's start with one worker.
SpecGate == InitSingleWorker /\ [][Startup \/ Server]_vars

\* The librarian's configurations: scan_on_start, watch_for_changes and
\* whether scan_interval_minutes is positive.
Configs == [ScanOnStart : BOOLEAN, WatchForChanges : BOOLEAN, PeriodicScan : BOOLEAN]

\* The librarian process once library.New has returned: no watcher, no
\* goroutine, stopChan made and open.
InitNew ==
  /\ files \in SUBSET AllFiles
  /\ \E known \in SUBSET VideoFiles : videos = CatalogOf(Walk(known))
  /\ added = {}
  /\ scan = [pc |-> "idle", walk |-> <<>>, idx |-> 0, runs |-> 0, err |-> Nil,
             ret |-> "none", failed |-> ""]
  /\ events = <<>>
  /\ watch = NoLoop
  /\ mgr = [isWatching |-> FALSE, stopChan |-> "open", watcher |-> "none"]
  /\ grown = {}
  /\ \E cfg \in Configs :
       lib = [main |-> "start", periodic |-> "none", old |-> NoLoop,
              panicked |-> FALSE, cfg |-> cfg]
  /\ InitPool
  /\ InitCache
  /\ InitServer

\* A new manager with one worker over an empty catalog.
InitLifecycle == InitNew /\ threads = 1 /\ videos = <<>>

\* StartWatching and StopWatching called in any order on one manager, next
\* to the watch goroutines and a growing tree.
SpecLifecycle ==
  InitLifecycle
    /\ [][StartWatching \/ Watcher \/ OldWatchInsert \/ OldWatchStop
             \/ (\E f \in AllFiles : CreateFile(f))]_vars

\* A new librarian process with one worker, the video files in place.
InitLibrarian == InitNew /\ threads = 1 /\ VideoFiles \subseteq files

\* The librarian process from its start to its end over a tree that stays
\* as it is.
SpecLibrarian == InitLibrarian /\ [][Librarian]_vars

\* One caller of ProcessPendingVideos with one worker next to the server's
\* CleanupCache goroutine, on the cache directory they share, as time goes
\* by.
SpecPoolReaper ==
  InitSingleWorker
    /\ [][PassStart("pass1") \/ PassSteps("pass1") \/ Reaper \/ HourPasses]_vars

\* One caller of ProcessPendingVideos whose goroutines are scheduled and
\* whose ffmpeg subprocesses end: a step of the call that can be taken is
\* taken.
SpecPassFair ==
  /\ Init
  /\ [][PassStart("pass1") \/ PassSteps("pass1")]_vars
  /\ WF_vars(PassSteps("pass1"))

\* The scanner and the watch goroutine over a tree whose files are made and
\* written to.
SpecGrowth ==
  InitOneWorker
    /\ [][(\E f \in AllFiles : CreateFile(f)) \/ (\E f \in AllFiles : ModifyFile(f))
             \/ Scanner \/ WatchEvent \/ WatchInsert]_vars

\* ------------------------------------------------------------------ claims

Range(s) == {s[i] : i \in DOMAIN s}

\* The encodes (pass, worker, quality) whose ffmpeg subprocess is running.
RunningEncodes ==
  {e \in (Passes \X Workers) \X QIdx : wk[e[1]].g[e[2]].pc = "run"}

EncodeKey(e) == JobKey(VideoJob(wk[e[1]].video.Path, Qualities[e[2]]))

\* C1: job dedup -- at no time do two ffmpeg subprocesses run for the same
\* job key, whatever the interleaving of the IsJobActive check and the
\* SetJobActive mark of concurrent TranscodeToHLS calls.
C1_OneSubprocessPerKey ==
  \A e1 \in RunningEncodes, e2 \in RunningEncodes :
    EncodeKey(e1) = EncodeKey(e2) => e1 = e2

\* A worker's step that ends processVideo for its video.
EndsProcessVideo(pw) ==
  /\ wk[pw].pc \in {"setReady", "setError"}
  /\ wk'[pw].pc = "range"

\* C2: when processVideo ends for an entry whose every variant's ffmpeg run
\* exited non-zero, the entry's status is error; it is ready only if some
\* variant's run exited 0.
C2_ErrorWhenNoVariantSucceeded ==
  [][\A pw \in Passes \X Workers :
       EndsProcessVideo(pw) /\ (\A q \in QIdx : wk[pw].g[q].code >= 0) =>
         LET status == videos'[wk[pw].video.ID].status IN
         /\ (\A q \in QIdx : wk[pw].g[q].code > 0) => status = StatusError
         /\ status = StatusReady => \E q \in QIdx : wk[pw].g[q].code = 0]_vars

\* The lines of the master playlist that name variant q's playlist.
VariantUriLines(content, videoFile, q) ==
  {i \in DOMAIN content :
     content[i].uri = <<videoFile, "_", Qualities[q].height, ".m3u8">>}

\* The stream-info lines directly followed by a line naming variant q.
VariantPairs(content, videoFile, q) ==
  {i \in VariantUriLines(content, videoFile, q) :
     i > 1 /\ content[i - 1].tag = "#EXT-X-STREAM-INF"}

\* C3: the master playlist PrepareVideo has written holds exactly one
\* stream-info/path pair for each variant whose encode reported success and
\* none for a variant whose encode failed.
C3_MasterListsSucceededVariants ==
  \A pw \in Passes \X Workers :
    wk[pw].pc = "setReady" =>
      LET videoFile == Base(wk[pw].video.Path) IN
      \A f \in cacheFiles :
        f.dir = Stem(videoFile) /\ f.name = MasterName(videoFile) =>
          \A q \in QIdx :
            /\ VariantUriLines(f.content, videoFile, q)
                 = VariantPairs(f.content, videoFile, q)
            /\ Cardinality(VariantPairs(f.content, videoFile, q))
                 = IF wk[pw].g[q].err = Nil THEN 1 ELSE 0

StatusRank(status) ==
  CASE status = StatusPending -> 0
    [] status = StatusProcessing -> 1
    [] status = StatusReady -> 2
    [] status = StatusError -> 3

\* C4: an entry's status only moves forward along pending, processing, ready,
\* or to error; ready and error are never left for processing or pending.
C4_StatusMovesForward ==
  [][\A i \in DOMAIN videos :
       \/ videos'[i].status = videos[i].status
       \/ videos'[i].status = StatusError
       \/ /\ videos[i].status # StatusError
          /\ StatusRank(videos'[i].status) > StatusRank(videos[i].status)]_vars

UniquePaths ==
  \A i \in DOMAIN videos, j \in DOMAIN videos :
    videos[i].path = videos[j].path => i = j

\* The UNIQUE-constraint error AddVideo returns for a path already present.
DuplicateKey ==
  <<"failed to add video: ", "UNIQUE constraint failed: videos.path">>

\* C5: the catalog never holds two entries for one path; an insert of the
\* scan or of the watch goroutine that comes after the other one's insert
\* of the same path fails with the duplicate-key error, changes no entry,
\* and the loop goes on with the next file or event.
C5_OneEntryPerPath ==
  /\ []UniquePaths
  /\ [][/\ (scan.pc = "insert" /\ scan' # scan
              /\ VideoExists(videos, scan.walk[scan.idx]))
           => /\ videos' = videos
              /\ scan'.err = DuplicateKey
              /\ scan'.pc = "visit"
              /\ scan'.idx = scan.idx + 1
        /\ (watch.pc = "insert" /\ watch' # watch
              /\ VideoExists(videos, watch.name))
           => /\ videos' = videos
              /\ watch'.err = DuplicateKey
              /\ watch'.pc = "select"]_vars

\* A scan lost the race for a path to the watch goroutine, went on and
\* returned.
C5_LostInsertSwallowed ==
  /\ scan.err = DuplicateKey
  /\ scan.pc = "idle"
  /\ scan.runs >= 1
  /\ \E a \in added : InMediaDir(a.path)

\* C6: a /video/ request that looks up, with GetVideoByPath, a path the
\* scanner or the watcher has inserted and nothing has processed since gets
\* no error and the one entry of that path, pending and of the size seen at
\* insertion.
C6_LookupAfterInsert ==
  [][\A a \in added :
       /\ http' # http
       /\ http'.path = a.path
       /\ videos[a.id].status = StatusPending
       => /\ http'.err = Nil
          /\ http'.found
          /\ http'.video.ID = a.id
          /\ http'.video.Status = StatusPending
          /\ http'.video.Size = a.size
          /\ Cardinality({i \in DOMAIN videos : videos[i].path = a.path}) = 1]_vars

C8_ScannedVideoBecomesReady ==
  (scan.runs = 1 /\ pass["pass1"].pc = "idle" /\ pass["pass1"].ret # "none") =>
    \A a \in added :
      /\ pass["pass1"].ret = "nil"
      /\ \/ videos[a.id].status = StatusError
         \/ /\ videos[a.id].status = StatusReady
            /\ \E f \in cacheFiles :
                 /\ f.dir = Stem(Base(a.path))
                 /\ f.name = MasterName(Base(a.path))
                 /\ \A q \in QIdx :
                      VariantPairs(f.content, Base(a.path), q) # {}

\* C9: when the encode of the only configured variant fails, PrepareVideo
\* writes no master playlist for the entry.
C9_NoMasterWhenOnlyVariantFails ==
  [][\A pw \in Passes \X Workers :
       /\ wk[pw].pc = "wgWait"
       /\ wk'[pw].pc # "wgWait"
       /\ Len(Qualities) = 1
       /\ wk[pw].g[1].code > 0
       => cacheFiles' = cacheFiles]_vars

\* C10: when an encode subprocess of an entry exits non-zero, the text it
\* printed is part of the errorMessage stored for the entry.
C10_OutputInErrorMessage ==
  [][\A pw \in Passes \X Workers :
       EndsProcessVideo(pw) =>
         \A q \in QIdx :
           wk[pw].g[q].code > 0 =>
             /\ videos'[wk[pw].video.ID].status = StatusError
             /\ Range(wk[pw].g[q].output)
                  \subseteq Range(videos'[wk[pw].video.ID].errorMessage.str)]_vars

\* The step in which a ProcessPendingVideos call returns after wg.Wait.
PassReturns(p) == pass[p].pc = "wait" /\ pass'[p].pc = "idle"

\* C11: when ProcessPendingVideos returns, every entry it listed and sent to
\* its workers has status ready or error, also when a status write failed.
C11_DispatchedEntriesTerminal ==
  [][\A p \in Passes :
       PassReturns(p) =>
         \A k \in DOMAIN pass[p].pendingVideos :
           videos'[pass[p].pendingVideos[k].ID].status
             \in {StatusReady, StatusError}]_vars

\* The workers of a pass that have been started and have not ended.
StartedWorkers(p) == {w \in Workers : wk[<<p, w>>].pc # "off"}

\* The workers of a pass that are inside processVideo.
BusyWorkers(p) == {w \in Workers : wk[<<p, w>>].pc \notin {"off", "range"}}

LaunchesEncode(i) ==
  \E pw \in Passes \X Workers, q \in QIdx :
    /\ wk[pw].video.ID = i
    /\ wk[pw].g[q].pc # "run"
    /\ wk'[pw].g[q].pc = "run"

\* C13: once an entry's status is error, no step changes its status or
\* launches an encode for it.
C13_ErrorIsTerminal ==
  [][\A i \in DOMAIN videos :
       videos[i].status = StatusError =>
         /\ videos'[i].status = StatusError
         /\ ~LaunchesEncode(i)]_vars

\* The job keys of the variants of a video.
JobKeysOf(videoPath) == {JobKey(VideoJob(videoPath, Qualities[q])) : q \in QIdx}

\* C14: once the TranscodeToHLS calls of an entry have returned, its master
\* playlist is written, and its ready or error status is written, only when
\* no ffmpeg subprocess for one of the entry's job keys is running, whoever
\* started it.
C14_TerminalWriteAfterEncodes ==
  [][\A pw \in Passes \X Workers :
       (\/ wk[pw].pc = "wgWait" /\ wk'[pw].pc # "wgWait"
        \/ EndsProcessVideo(pw) /\ \A q \in QIdx : wk[pw].g[q].pc = "done")
       => \A e \in RunningEncodes : EncodeKey(e) \notin JobKeysOf(wk[pw].video.Path)]_vars

\* C15: whenever PrepareVideo has started the encodes of an entry, the
\* entry's processing status is in the catalog: it was written before, and
\* after a failed processing write no encode is started.
C15_ProcessingBeforeEncode ==
  \A pw \in Passes \X Workers :
    wk[pw].pc \in {"prepare", "wgWait"} =>
      videos[wk[pw].video.ID].status = StatusProcessing

\* An ffmpeg subprocess runs for an entry.
C15_EncodeRunning ==
  \E pw \in Passes \X Workers, q \in QIdx :
    /\ wk[pw].g[q].pc = "run"
    /\ videos[wk[pw].video.ID].status = StatusProcessing

\* C16: an entry's errorMessage is empty or unset unless its status is
\* error.
C16_MessageOnlyOnError ==
  \A i \in DOMAIN videos :
    videos[i].status # StatusError => videos[i].errorMessage.str = <<>>

\* One entry is in error with a message, another is ready.
C16_ErrorAndReady ==
  \E i \in DOMAIN videos, j \in DOMAIN videos :
    /\ videos[i].status = StatusError
    /\ videos[i].errorMessage.valid
    /\ videos[i].errorMessage.str # <<>>
    /\ videos[j].status = StatusReady
    /\ videos[j].errorMessage = SqlText(<<>>)

\* C17: after StopWatching has been called on a running watcher, the watch
\* goroutine eventually closes the fsnotify watcher and returns; once it has
\* returned it takes no further step, so it inserts nothing.
C17_StoppedWatcherReturns ==
  /\ (~mgr.isWatching) ~> (watch.pc = "returned" /\ mgr.watcher = "closed")
  /\ [][watch.pc = "returned" => watch' = watch /\ videos' = videos]_vars

\* The watch goroutine inserted a file, was stopped and has returned with an
\* event left unhandled.
C17_ReturnedAfterInsert ==
  /\ watch.pc = "returned"
  /\ mgr.watcher = "closed"
  /\ ~mgr.isWatching
  /\ \E a \in added : InMediaDir(a.path)
  /\ events # <<>>

\* C18: a ScanLibrary call whose walk failed on a file below the media
\* directory still returns nil, and when it returns every other video file
\* the walk found is in the catalog; only a failure on the media directory
\* itself makes the call return an error.
C18_WalkFailureSkipped ==
  [][scan.runs' = scan.runs + 1 =>
       /\ scan'.ret = "err" <=> scan'.failed = MediaDir
       /\ \A k \in DOMAIN scan.walk :
            /\ scan.walk[k] # scan'.failed
            /\ isVideoFile(Ext(Base(scan.walk[k])))
            => VideoExists(videos', scan.walk[k])]_vars

\* C19: a step of ScanLibrary leaves every entry of the catalog as it is
\* (status, size, errorMessage and all) and removes none, also an entry whose
\* file is no longer in the tree.
C19_ScanOnlyAdds ==
  [][scan' # scan =>
       /\ Len(videos') >= Len(videos)
       /\ \A i \in DOMAIN videos : videos'[i] = videos[i]]_vars

\* A scan has inserted a file and returned nil while the catalog holds a
\* processed entry whose file is gone.
C19_ScannedOverStaleEntry ==
  /\ scan.runs >= 1
  /\ scan.pc = "idle"
  /\ scan.ret = "nil"
  /\ added # {}
  /\ \E i \in DOMAIN videos :
       /\ videos[i].path \notin files
       /\ videos[i].status \in {StatusReady, StatusError}

\* C20: the refresh channel never holds more than one signal, the handler's
\* scan request can always be served (its send never blocks), and a request
\* made while a signal is pending leaves the channel as it is.
C20_RefreshCoalesces ==
  /\ [](refreshCh <= 1)
  /\ [](ENABLED ListVideosHandler(TRUE))
  /\ [][refreshCh = RefreshCap /\ refreshCh' >= refreshCh => refreshCh' = refreshCh]_vars

\* A scan request has been answered and its signal is pending.
C20_RequestPending ==
  /\ refreshCh = RefreshCap
  /\ http.path = "/?scan=true"
  /\ http.code = 303

\* C21: every refresh signal accepted by the refresh channel is followed by
\* the start of a scan or of a ProcessPendingVideos call; so when signals
\* are accepted again and again, scans or passes are started again and
\* again.
C21_RefreshTriggersPass ==
  []<>(refreshCh > 0) => []<><<ScanStart \/ PassStart("pass1")>>_vars

\* C22: once the stop signal has been given, a ProcessPendingVideos call
\* that is draining hands no further entry of its jobs channel to a worker.
C22_NoDispatchAfterStop ==
  [][\A p \in Passes :
       /\ mgr.stopChan = "closed"
       /\ pass[p].pc = "wait"
       /\ pass'[p].pc = "wait"
       => pass'[p].jobs = pass[p].jobs]_vars

C24_FailureIsolation ==
  [][\A p \in Passes :
       /\ \A w \in Workers :
            wk[<<p, w>>].pc \notin {"off", "range"} /\ wk'[<<p, w>>] # wk[<<p, w>>] =>
              /\ wk'[<<p, w>>].pc # "off"
              /\ pass'[p] = pass[p]
       /\ PassReturns(p) =>
            /\ pass[p].jobs = <<>>
            /\ pass'[p].ret = "nil"]_vars

\* One worker's pass over two entries has returned nil: the first entry
\* failed and is in error, the second, taken after it, is ready.
C24_Witness ==
  /\ threads = 1
  /\ pass["pass1"].pc = "idle"
  /\ pass["pass1"].ret = "nil"
  /\ Len(videos) = 2
  /\ videos[1].status = StatusError
  /\ videos[2].status = StatusReady

\* The ids of the catalog rows of a path.
RowsOf(path) == {i \in DOMAIN videos : videos[i].path = path}

C26_MasterVariantsExist ==
  [][\A pw \in Passes \X Workers :
       wk[pw].pc = "wgWait" /\ wk'[pw].pc = "setReady" =>
         LET videoFile == Base(wk[pw].video.Path) IN
         \A f \in cacheFiles' :
           f.dir = Stem(videoFile) /\ f.name = MasterName(videoFile) =>
             \A i \in DOMAIN f.content :
               f.content[i].uri # <<>> =>
                 \E v \in cacheFiles :
                   v.dir = f.dir /\ v.name = f.content[i].uri]_vars

\* C27: a TranscodeToHLS call that ends, with ffmpeg's exit or with the
\* MkdirAll error, leaves its job key out of the registry; and the registry
\* is empty whenever no call is past SetJobActive(jobKey, true).
C27_RegistryCleanup ==
  /\ [](RunningEncodes = {} => activeJobs = {})
  /\ [][\A pw \in Passes \X Workers, q \in QIdx :
         wk[pw].g[q].pc \in {"mark", "run"} /\ wk'[pw].g[q].pc = "done" =>
           JobKey(VideoJob(wk[pw].video.Path, Qualities[q])) \notin activeJobs']_vars

\* No call is in progress and the registry is empty after one call ended
\* with the MkdirAll error and another with a failed encode.
C27_Witness ==
  /\ RunningEncodes = {}
  /\ activeJobs = {}
  /\ \E pw \in Passes \X Workers, q \in QIdx :
       wk[pw].g[q].pc = "done" /\ wk[pw].g[q].err = MkdirError
  /\ \E pw \in Passes \X Workers, q \in QIdx :
       wk[pw].g[q].pc = "done" /\ wk[pw].g[q].code > 0

\* C28: the entries of a pass inside processVideo are never more than the
\* configured worker count, or one when that count is zero or less; and the
\* worker that takes an entry from the jobs channel holds no entry, having
\* ended processVideo for the one it took before.
C28_BoundedConcurrency ==
  /\ [](\A p \in Passes :
          Cardinality({w \in Workers : wk[<<p, w>>].video # NoVideo})
            <= IF threads <= 0 THEN 1 ELSE threads)
  /\ [][\A p \in Passes, w \in Workers :
         /\ wk'[<<p, w>>].video # wk[<<p, w>>].video
         /\ wk'[<<p, w>>].video # NoVideo
         => /\ wk[<<p, w>>].pc = "range"
            /\ wk[<<p, w>>].video = NoVideo
            /\ pass[p].jobs # <<>>
            /\ wk'[<<p, w>>].video = Head(pass[p].jobs)
            /\ pass'[p].jobs = Tail(pass[p].jobs)]_vars

\* Two configured workers are both inside processVideo, each with its own
\* entry.
C28_Witness ==
  /\ threads = 2
  /\ Cardinality(BusyWorkers("pass1")) = 2
  /\ wk[<<"pass1", 1>>].video # wk[<<"pass1", 2>>].video

\* C29: the watch goroutine goes on to AddVideo only for a Create or Write
\* event whose name has a video extension, exists, is not a directory and
\* has no catalog row; the catalog changes only by that AddVideo, which
\* appends one pending row for the event's path; after any event the
\* goroutine is back at its select or at the AddVideo call.
C29_WatcherInsertsOnlyNewVideos ==
  [][/\ (watch.pc = "select" /\ watch'.pc = "insert") =>
          LET event == Head(events) IN
          /\ event.op \in {"CREATE", "WRITE"}
          /\ Ext(Base(event.name)) \in {".mp4", ".mkv", ".avi", ".mov", ".webm", ".flv", ".wmv"}
          /\ event.name \in files
          /\ event.name # ClipDir
          /\ \A i \in DOMAIN videos : videos[i].path # event.name
          /\ watch'.name = event.name
     /\ (watch.pc = "select" /\ events' # events /\ Len(events') < Len(events)) =>
          /\ videos' = videos
          /\ watch'.pc \in {"select", "insert"}
     /\ videos' # videos =>
          /\ watch.pc = "insert"
          /\ watch'.pc = "select"
          /\ Len(videos') = Len(videos) + 1
          /\ \A i \in DOMAIN videos : videos'[i] = videos[i] /\ videos[i].path # watch.name
          /\ videos'[Len(videos')].path = watch.name
          /\ videos'[Len(videos')].status = StatusPending]_vars

\* The watch goroutine has handled every event: a Write event gave the
\* video file its row, the text file and the directory named like a video
\* have none.
C29_Witness ==
  /\ events = <<>>
  /\ watch.pc = "select"
  /\ {ClipDir, Notes, RootA} \subseteq files
  /\ \E r \in added : r.path = RootA
  /\ \A i \in DOMAIN videos : videos[i].path \notin {ClipDir, Notes}

\* C30: the job key of every running ffmpeg subprocess is in the registry
\* of active jobs.
C30_RunningKeyIsActive ==
  \A e \in RunningEncodes : EncodeKey(e) \in activeJobs

\* The playlist path the ffmpeg subprocess of an encode writes.
EncodeOutput(e) ==
  LET job == VideoJob(wk[e[1]].video.Path, Qualities[e[2]]) IN
  <<job.OutputDir, job.OutputName>>

\* C31: no two ffmpeg subprocesses running at the same time write the same
\* output playlist path, also when they encode two catalog entries.
C31_DistinctOutputPaths ==
  \A e1 \in RunningEncodes, e2 \in RunningEncodes :
    EncodeOutput(e1) = EncodeOutput(e2) => e1 = e2

\* C32: whatever the sequence of StartWatching, StopWatching and Close calls
\* on one manager, no call panics: stopChan is closed at most once.
C32_NoPanic == ~lib.panicked

\* The watch-loop goroutines that are alive.
AliveLoops ==
  (IF watch.pc \in {"select", "insert"} THEN {"watch"} ELSE {})
    \cup (IF lib.old.pc \in {"select", "insert"} THEN {"old"} ELSE {})

\* C33: whenever isWatching is true a watch-loop goroutine is alive, also
\* after watcher.Add failed and after StartWatching was called again.
C33_WatchingHasLoop == (~lib.panicked /\ mgr.isWatching) => AliveLoops # {}

\* C34: once Close has returned, the periodic-scan goroutine starts no
\* further scan, also when the watcher was never started.
C34_NoScanAfterClose ==
  [][(lib.main = "closed" /\ mgr.watcher = "none") =>
       ~(lib.periodic = "select" /\ lib'.periodic = "scan")]_vars

\* C35: within one librarian process no two ProcessPendingVideos passes run
\* at the same time.
C35_PassesDoNotOverlap ==
  ~(pass["pass1"].pc = "wait" /\ pass["pass2"].pc = "wait")

\* The periodic pass at work in a process whose start-up pass has encoded.
C35_Witness ==
  /\ lib.cfg.ScanOnStart
  /\ pass["pass2"].pc = "wait"
  /\ \E i \in DOMAIN videos : videos[i].status # StatusPending

\* The ids of the entries a pass listed.
ListedIds(p) == {pass[p].pendingVideos[k].ID : k \in DOMAIN pass[p].pendingVideos}

\* C36: a pass lists, hands to its workers and changes only entries that
\* were pending when it listed the catalog: an entry that was processing,
\* ready or error then is not dispatched and is left as it is by the pass.
C36_PassTouchesOnlyPending ==
  [][/\ (pass["pass1"].pc = "idle" /\ pass'["pass1"].pc = "wait") =>
          \A k \in DOMAIN pass'["pass1"].pendingVideos :
            videos[pass'["pass1"].pendingVideos[k].ID].status = StatusPending
     /\ \A w \in Workers :
          wk'[<<"pass1", w>>].pc = "setProcessing" =>
            wk'[<<"pass1", w>>].video.ID \in ListedIds("pass1")
     /\ \A i \in DOMAIN videos :
          videos'[i] # videos[i] => i \in ListedIds("pass1")]_vars

\* A pass at work on an entry while another entry, not pending when the pass
\* listed, is not among its listed entries.
C36_Witness ==
  /\ pass["pass1"].pc = "wait"
  /\ \E w \in Workers : wk[<<"pass1", w>>].pc = "setReady"
  /\ \E i \in DOMAIN videos :
       /\ i \notin ListedIds("pass1")
       /\ videos[i].status \in {StatusProcessing, StatusReady, StatusError}

\* C37: in every state a ready entry has its output directory and its
\* master playlist on disk, whatever the interleaving of pool passes and
\* CleanupCache sweeps.
C37_ReadyHasMaster ==
  \A i \in DOMAIN videos :
    videos[i].status = StatusReady =>
      LET videoFile == Base(videos[i].path) IN
      /\ Stem(videoFile) \in cacheDirs
      /\ \E f \in cacheFiles :
           f.dir = Stem(videoFile) /\ f.name = MasterName(videoFile)

\* C38: a ProcessPendingVideos call whose ffmpeg subprocesses all end
\* returns, whatever the number of workers and of listed entries.
C38_PassReturns == (pass["pass1"].pc = "wait") ~> (pass["pass1"].pc = "idle")

\* A call with two workers has returned after work on two entries.
C38_Witness ==
  /\ NumWorkers(threads) = MaxWorkers
  /\ pass["pass1"].pc = "idle"
  /\ pass["pass1"].ret = "nil"
  /\ Cardinality({i \in DOMAIN videos : videos[i].status # StatusPending}) >= 2

\* C39: the size of a catalog entry is the one recorded when the entry was
\* made: no Write event and no later scan changes the size or the status
\* of an entry, also when the file has grown; and a new entry gets the size
\* its file had when the scanner or the watcher looked at it.
C39_SizeNeverUpdated ==
  [][/\ \A i \in DOMAIN videos :
          /\ i \in DOMAIN videos'
          /\ videos'[i].size = videos[i].size
          /\ videos'[i].status = videos[i].status
     /\ \A i \in DOMAIN videos' \ DOMAIN videos :
          \/ scan.pc = "insert" /\ videos'[i].size = StatSize(videos'[i].path)
          \/ /\ watch.pc = "insert"
             /\ videos'[i].path = watch.name
             /\ videos'[i].size = watch.size]_vars

\* The watch goroutine has passed over the Write event of a file that has
\* grown since its entry was made, after a scan that found the entry too.
C39_Witness ==
  /\ events = <<>>
  /\ watch.pc = "select"
  /\ scan.pc = "idle"
  /\ scan.runs >= 1
  /\ \E i \in DOMAIN videos :
       /\ videos[i].path \in grown
       /\ InMediaDir(videos[i].path)
       /\ videos[i].size = FileSize(videos[i].path)
       /\ StatSize(videos[i].path) > videos[i].size

====
